---- MODULE Spec2Model ----
(***************************************************************************)
(* Model of frontend/tauri-app/scripts/generate_theme_colors.py: the theme *)
(* palette generator (hex <-> rgb conversion, linear mixing, ramp          *)
(* derivation, opacity expansion, the two emitters and main).              *)
(*                                                                         *)
(* Representation.  A Python str is a sequence of one-character strings,   *)
(* so that slicing, lstrip, concatenation, formatting and the code-point   *)
(* order used by sorted() are computed and not assumed.  A Python dict is  *)
(* a sequence of <<key, value>> pairs in insertion order.  A float that    *)
(* the program handles is kept as an exact rational <<num, den>>; the      *)
(* model draws stop fractions with a power-of-two denominator, for which   *)
(* the double arithmetic of mix is exact.  A call that may raise returns   *)
(* a record [err, val]: err = "" on a normal return, otherwise the name of *)
(* the Python exception.                                                   *)
(***************************************************************************)
EXTENDS Integers, Sequences, FiniteSets, TLC

VARIABLES
    THEMES,           \* theme name -> seed dict (module constant of the run)
    DERIVED_SCALES,   \* tuple of (prefix, base, target, stops)
    pc,               \* position in main / in the function call
    idx,              \* next theme of the loop of main
    themes_palettes,  \* main's local dict
    total_vars,       \* main's local counter
    css_file,         \* content of OUT_CSS on disk
    ts_file,          \* content of OUT_TS on disk
    raised,           \* exception that ended the run, "" if none
    stdout,           \* the summary line printed by main
    arg,              \* argument of the function call under test
    ret               \* its result

vars == <<THEMES, DERIVED_SCALES, pc, idx, themes_palettes, total_vars,
          css_file, ts_file, raised, stdout, arg, ret>>

-----------------------------------------------------------------------------
(* Results of calls that may raise *)

Return(v) == [err |-> "", val |-> v]
Raise(e)  == [err |-> e, val |-> <<>>]

-----------------------------------------------------------------------------
(* Characters and strings *)

\* The characters the model uses, in increasing code-point order.
Chars ==
    << " ", "#", "(", ")", "-", ".", "/",
       "0", "1", "2", "3", "4", "5", "6", "7", "8", "9",
       "A", "B", "C", "D", "E", "F",
       "a", "b", "c", "d", "e", "f", "g", "p", "q", "r", "w", "x" >>

CharSet == {Chars[k] : k \in 1..Len(Chars)}

\* Rank of a character in code-point order (what str comparison compares).
Ord == [c \in CharSet |-> CHOOSE k \in 1..Len(Chars) : Chars[k] = c]

HexUpper == <<"0","1","2","3","4","5","6","7","8","9","A","B","C","D","E","F">>
HexLower == <<"0","1","2","3","4","5","6","7","8","9","a","b","c","d","e","f">>

IsHexDigit(c) == \E k \in 1..16 : HexUpper[k] = c \/ HexLower[k] = c

HexVal(c) == (CHOOSE k \in 1..16 : HexUpper[k] = c \/ HexLower[k] = c) - 1

\* Python str < str: lexicographic by code point, a proper prefix is smaller.
RECURSIVE StrLt(_, _)
StrLt(s, t) ==
    IF t = <<>> THEN FALSE
    ELSE IF s = <<>> THEN TRUE
    ELSE IF s[1] = t[1] THEN StrLt(Tail(s), Tail(t))
    ELSE Ord[s[1]] < Ord[t[1]]

\* s[a:b] of Python for 0 <= a <= b (0-based, end exclusive, clamped).
Slice(s, a, b) ==
    LET hi == IF b > Len(s) THEN Len(s) ELSE b
    IN  IF a >= hi THEN <<>> ELSE SubSeq(s, a + 1, hi)

\* s.lstrip("#"): every leading '#' is removed, not only the first.
RECURSIVE LStripHash(_)
LStripHash(s) ==
    IF s # <<>> /\ s[1] = "#" THEN LStripHash(Tail(s)) ELSE s

\* The sequence s itself, as an explicit tuple: a sequence written
\* [j \in 1..n |-> e] is otherwise re-evaluated at every use of an element.
Tuple(s) == s \o <<>>

\* s.startswith(p)
StartsWith(s, p) == Len(s) >= Len(p) /\ SubSeq(s, 1, Len(p)) = p

\* str(n) / f"{n}" for an integer n.
RECURSIVE Dec(_)
Dec(n) ==
    IF n < 0 THEN <<"-">> \o Dec(0 - n)
    ELSE IF n < 10 THEN <<HexUpper[n + 1]>>
    ELSE Dec(n \div 10) \o <<HexUpper[(n % 10) + 1]>>

\* f"{n:02d}" for n >= 0: zero-padded to width two, never truncated.
Fmt02d(n) == IF n < 10 THEN <<"0">> \o Dec(n) ELSE Dec(n)

\* Uppercase hexadecimal digits of n >= 0, no padding.
RECURSIVE HexDigitsOf(_)
HexDigitsOf(n) ==
    IF n < 16 THEN <<HexUpper[n + 1]>>
    ELSE HexDigitsOf(n \div 16) \o <<HexUpper[(n % 16) + 1]>>

\* f"{c:X}": the same digits without the padding to width two.
FmtX(c) ==
    IF c < 0 THEN <<"-">> \o HexDigitsOf(0 - c) ELSE HexDigitsOf(c)

\* f"{c:02X}": width two counts the sign; wider numbers are not truncated.
Fmt02X(c) ==
    IF c < 0 THEN <<"-">> \o HexDigitsOf(0 - c)
    ELSE IF c < 16 THEN <<"0">> \o HexDigitsOf(c)
    ELSE HexDigitsOf(c)

\* f"{pct / 100.0:.2f}" for an integer pct >= 0: the quotient has at most two
\* decimals, which the format prints in full, trailing zeros included.
Fmt2f(pct) ==
    Dec(pct \div 100) \o <<".">> \o <<HexUpper[((pct % 100) \div 10) + 1]>>
        \o <<HexUpper[(pct % 10) + 1]>>

-----------------------------------------------------------------------------
(* Dicts: sequences of <<key, value>> in insertion order *)

HasKey(d, k) == \E j \in 1..Len(d) : d[j][1] = k

\* d[k], KeyError when k is absent.
Get(d, k) ==
    IF HasKey(d, k)
    THEN Return(d[CHOOSE j \in 1..Len(d) : d[j][1] = k][2])
    ELSE Raise("KeyError")

\* d[k] = v: an existing key keeps its position and takes the new value.
DictSet(d, k, v) ==
    IF HasKey(d, k)
    THEN [j \in 1..Len(d) |-> IF d[j][1] = k THEN <<k, v>> ELSE d[j]]
    ELSE Append(d, <<k, v>>)

Keys(d) == {d[j][1] : j \in 1..Len(d)}

-----------------------------------------------------------------------------
(* Helpers of the generator *)

\* s.strip() for whitespace, as int() does before parsing.
RECURSIVE StripSpaces(_)
StripSpaces(s) ==
    IF s # <<>> /\ s[1] = " " THEN StripSpaces(Tail(s))
    ELSE IF s # <<>> /\ s[Len(s)] = " " THEN StripSpaces(SubSeq(s, 1, Len(s) - 1))
    ELSE s

\* Value of one or two hexadecimal digits.
Magnitude(digits) ==
    IF Len(digits) = 1 THEN HexVal(digits[1])
    ELSE 16 * HexVal(digits[1]) + HexVal(digits[2])

\* The digits of int(s, 16) after its sign: ValueError when there is none or
\* one is not hexadecimal.
ParseDigits(sign, digits) ==
    IF digits = <<>> \/ \E k \in 1..Len(digits) : ~IsHexDigit(digits[k])
    THEN Raise("ValueError")
    ELSE Return(sign * Magnitude(digits))

\* int(s, 16) once the surrounding blanks are dropped: an optional sign.
ParseSigned(s) ==
    IF s # <<>> /\ s[1] = "-" THEN ParseDigits(0 - 1, Tail(s))
    ELSE IF s # <<>> /\ s[1] = "+" THEN ParseDigits(1, Tail(s))
    ELSE ParseDigits(1, s)

\* int(s, 16) for a slice s of at most two characters.
Int16(s) == ParseSigned(StripSpaces(s))

\* The tuple of line 98: the first channel that raises ends the call.
Channels(r, g, b) ==
    IF r.err # "" THEN r
    ELSE IF g.err # "" THEN g
    ELSE IF b.err # "" THEN b
    ELSE Return(<<r.val, g.val, b.val>>)

\* Line 98 on the stripped string.
ParseChannels(h) ==
    Channels(Int16(Slice(h, 0, 2)), Int16(Slice(h, 2, 4)), Int16(Slice(h, 4, 6)))

hex_to_rgb(hex_str) == ParseChannels(LStripHash(hex_str))

rgb_to_hex(rgb) ==
    <<"#">> \o Fmt02X(rgb[1]) \o Fmt02X(rgb[2]) \o Fmt02X(rgb[3])

\* Rounding of n / d, d > 0, with an exact half going up: floor(n / d + 1/2).
RoundHalfUp(n, d) == (2 * n + d) \div (2 * d)

\* round(n / d) of Python 3 for d > 0: to the nearest integer, an exact half
\* to the even neighbour.
PyRound(n, d) ==
    LET q == n \div d
        r == n % d
    IN  IF 2 * r < d THEN q
        ELSE IF 2 * r > d THEN q + 1
        ELSE IF q % 2 = 0 THEN q ELSE q + 1

\* 1 - x on a rational x = <<num, den>>.
OneMinus(x) == <<x[2] - x[1], x[2]>>

\* round(c1 + (c2 - c1) * p) for p = <<num, den>>.
MixChannel(c1, c2, p) == PyRound(c1 * p[2] + (c2 - c1) * p[1], p[2])

\* Lines 109-114 on the decoded colours.
MixRgb(a, b, p) ==
    IF a.err # "" THEN a
    ELSE IF b.err # "" THEN b
    ELSE Return(rgb_to_hex(<<MixChannel(a.val[1], b.val[1], p),
                             MixChannel(a.val[2], b.val[2], p),
                             MixChannel(a.val[3], b.val[3], p)>>))

mix(c1, c2, p) == MixRgb(hex_to_rgb(c1), hex_to_rgb(c2), p)

-----------------------------------------------------------------------------
(* build_palette *)

\* range(5, 105, 5)
op_steps == [k \in 1..20 |-> 5 * k]

\* f"{prefix}-{suffix}"
RampName(prefix, suffix) == prefix \o <<"-">> \o Dec(suffix)

RECURSIVE RampStops(_, _, _, _, _)

\* Line 130 with the colour m that mix returned or the exception it raised.
RampStop(palette, prefix, base, target, stops, m) ==
    IF m.err # "" THEN m
    ELSE RampStops(DictSet(palette, RampName(prefix, stops[1][1]), m.val),
                   prefix, base, target, Tail(stops))

\* Lines 128-130: one stop after the other, each written into palette.
RampStops(palette, prefix, base, target, stops) ==
    IF stops = <<>> THEN Return(palette)
    ELSE LET delta  == stops[1][2]
             weight == OneMinus(delta)
         IN  RampStop(palette, prefix, base, target, stops,
                      mix(base, target, OneMinus(weight)))

RECURSIVE RampLoop(_, _, _)

\* The next RampSpec, after the stops of one ended with r.
RampNext(theme_colors, scales, r) ==
    IF r.err # "" THEN r ELSE RampLoop(r.val, theme_colors, Tail(scales))

\* Lines 126-130 for the first of scales, base and target looked up.
RampSpec(palette, theme_colors, scales, base, target) ==
    IF base.err # "" THEN base
    ELSE IF target.err # "" THEN target
    ELSE RampNext(theme_colors, scales,
                  RampStops(palette, scales[1][1], base.val, target.val,
                            scales[1][4]))

\* Lines 125-130: base and target are looked up in the seeds, not in palette.
RampLoop(palette, theme_colors, scales) ==
    IF scales = <<>> THEN Return(palette)
    ELSE RampSpec(palette, theme_colors, scales,
                  Get(theme_colors, scales[1][2]),
                  Get(theme_colors, scales[1][3]))

\* Line 139, negated: the values the opacity loop does not skip.
IsColorVar(hex_value) ==
    StartsWith(hex_value, <<"#">>) \/ StartsWith(hex_value, <<"r", "g", "b">>)

\* f"{name}-{pct:02d}"
VariantName(name, pct) == name \o <<"-">> \o Fmt02d(pct)

\* f"rgb({r} {g} {b} / {alpha:.2f})" with alpha = pct / 100.0
VariantValue(rgb, pct) ==
    <<"r", "g", "b", "(">> \o Dec(rgb[1]) \o <<" ">> \o Dec(rgb[2]) \o <<" ">>
        \o Dec(rgb[3]) \o <<" ", "/", " ">> \o Fmt2f(pct) \o <<")">>

\* The items of palette the opacity loop does not skip, in iteration order.
ColorVars(palette) == SelectSeq(palette, LAMBDA item : IsColorVar(item[2]))

\* The assignments of lines 142-144 in execution order: for each token of
\* colors, one per step of op_steps.
OpacityItems(colors) ==
    Tuple([m \in 1..(Len(colors) * Len(op_steps)) |->
        LET item == colors[((m - 1) \div Len(op_steps)) + 1]
            pct  == op_steps[((m - 1) % Len(op_steps)) + 1]
        IN  <<VariantName(item[1], pct),
              VariantValue(hex_to_rgb(item[2]).val, pct)>>])

\* d after d[k] = v for each <<k, v>> of items, in order: a key of d keeps its
\* position and ends with the last value assigned to it; a new key is
\* appended where it is first assigned and ends with its last value.
DictUpdate(d, items) ==
    LET n        == Len(items)
        Last(k)  == items[CHOOSE j \in 1..n :
                             /\ items[j][1] = k
                             /\ \A i \in (j + 1)..n : items[i][1] # k][2]
        Set(k)   == \E j \in 1..n : items[j][1] = k
        old      == [j \in 1..Len(d) |->
                        IF Set(d[j][1]) THEN <<d[j][1], Last(d[j][1])>> ELSE d[j]]
        keys     == Keys(d)
        firsts   == SelectSeq(Tuple([j \in 1..n |-> j]),
                              LAMBDA j : /\ items[j][1] \notin keys
                                         /\ \A i \in 1..(j - 1) :
                                               items[i][1] # items[j][1])
    IN  Tuple(old) \o [m \in 1..Len(firsts) |->
                            <<items[firsts[m]][1], Last(items[firsts[m]][1])>>]

\* The first item of colors whose value hex_to_rgb rejects, 0 if none.
FirstRejected(colors) ==
    LET bad == {j \in 1..Len(colors) : hex_to_rgb(colors[j][2]).err # ""}
    IN  IF bad = {} THEN 0 ELSE CHOOSE j \in bad : \A k \in bad : j <= k

\* Lines 141-144 over the items that are not skipped: the first value that
\* hex_to_rgb rejects ends the loop with its exception.
ExpandColors(full_palette, colors, rejected) ==
    IF rejected # 0 THEN hex_to_rgb(colors[rejected][2])
    ELSE Return(DictUpdate(full_palette, OpacityItems(colors)))

\* Lines 137-144: iterates palette, writes into its copy full_palette.
OpacityLoop(full_palette, palette) ==
    ExpandColors(full_palette, ColorVars(palette),
                 FirstRejected(ColorVars(palette)))

\* The palette before opacity expansion (lines 122-130).
RampPalette(theme_colors) == RampLoop(theme_colors, theme_colors, DERIVED_SCALES)

\* Lines 135-145 on the result of the ramp loop.
Expand(palette) ==
    IF palette.err # "" THEN palette
    ELSE OpacityLoop(palette.val, palette.val)

build_palette(theme_colors) == Expand(RampPalette(theme_colors))

-----------------------------------------------------------------------------
(* Emitters.  A line of output is kept as the template that renders it and *)
(* the fields put into it:                                                 *)
(*   <<"open", t>>     .theme-{t} {                                        *)
(*   <<"decl", n, v>>    {n}: {v};                                         *)
(*   <<"close">>       }                                                   *)
(*   <<"blank">>                                                           *)
(*   <<"header">>      the two fixed first lines of colors.ts              *)
(*   <<"entry", n, v>>   '{n}': '{v}',                                     *)
(*   <<"end">>         };                                                  *)

\* Tuple order of (name, value) items.
ItemLt(x, y) == StrLt(x[1], y[1]) \/ (x[1] = y[1] /\ StrLt(x[2], y[2]))

\* sorted(items): ascending and stable.  The place of an item is the number
\* of items that come before it.
Sorted(items) ==
    LET n     == Len(items)
        place == Tuple([j \in 1..n |->
                     Cardinality({k \in 1..n :
                         \/ k < j /\ ~ItemLt(items[j], items[k])
                         \/ k > j /\ ItemLt(items[k], items[j])}) + 1])
    IN  Tuple([r \in 1..n |-> items[CHOOSE j \in 1..n : place[j] = r]])

\* Lines 165-169 for one theme.
CssBlock(theme_name, palette) ==
    LET items == Sorted(palette)
    IN  <<<<"open", theme_name>>>>
            \o [j \in 1..Len(items) |-> <<"decl", items[j][1], items[j][2]>>]
            \o <<<<"close">>, <<"blank">>>>

\* A stylesheet that keeps only the block of the last theme.
emit_css_last(palettes) ==
    IF palettes = <<>> THEN <<>>
    ELSE CssBlock(palettes[Len(palettes)][1], palettes[Len(palettes)][2])

RECURSIVE CssBlocks(_, _)
CssBlocks(palettes, j) ==
    IF j > Len(palettes) THEN <<>>
    ELSE CssBlock(palettes[j][1], palettes[j][2]) \o CssBlocks(palettes, j + 1)

emit_css(palettes) == CssBlocks(palettes, 1)

\* The typed map with the entries in the order of the dict, not sorted.
emit_ts_unsorted(palette) ==
    <<<<"header">>>>
        \o [j \in 1..Len(palette) |-> <<"entry", palette[j][1], palette[j][2]>>]
        \o <<<<"end">>>>

emit_ts(palette) ==
    LET items == Sorted(palette)
    IN  <<<<"header">>>>
            \o [j \in 1..Len(items) |-> <<"entry", items[j][1], items[j][2]>>]
            \o <<<<"end">>>>

-----------------------------------------------------------------------------
(* Configurations the runs are drawn from *)

TokB    == <<"-", "-", "b">>
TokW    == <<"-", "-", "w">>
TokX    == <<"-", "-", "x">>
TokX500 == <<"-", "-", "x", "-", "5", "0", "0">>
TokR    == <<"-", "-", "r">>
TokQ    == <<"-", "-", "q">>

Black   == <<"#", "0", "0", "0", "0", "0", "0">>
White   == <<"#", "F", "F", "F", "F", "F", "F">>
Blue    == <<"#", "0", "0", "0", "0", "f", "f">>
Fg500   == <<"#", "b", "3", "3", "8", "3", "1">>
Whitest == <<"#", "4", "5", "2", "9", "3", "f">>
BadHex  == <<"#", "0", "0", "g", "g", "0", "0">>
Px8     == <<"8", "p", "x">>
RgbForm == <<"r", "g", "b", "(", "0", " ", "0", " ", "0", " ", "/", " ",
             "0", ".", "5", "0", ")">>

\* Base and target seeds of a theme: well-formed, or the base malformed.
CoreSeeds ==
    { << <<TokB, Black>>, <<TokW, White>> >>,
      << <<TokB, Fg500>>, <<TokW, Whitest>> >>,
      << <<TokB, BadHex>>, <<TokW, White>> >> }

\* Further seeds: a length literal and a colour named like the ramp prefix,
\* a functional colour, a colour named like a ramp stop.
ExtraSeeds ==
    { <<>>,
      << <<TokR, Px8>>, <<TokX, Blue>> >>,
      << <<TokR, RgbForm>> >>,
      << <<TokX500, Blue>> >> }

SeedDicts == {c \o e : c \in CoreSeeds, e \in ExtraSeeds}

ThemeNames == {"dark-red", "semi-sky"}

\* THEMES: a dict, so the theme names are distinct; any order, any subset.
ThemeTables ==
    { << <<n, s>> >> : n \in ThemeNames, s \in SeedDicts }
    \cup { << <<n[1], s1>>, <<n[2], s2>> >> :
             n \in {m \in ThemeNames \X ThemeNames : m[1] # m[2]},
             s1 \in SeedDicts, s2 \in SeedDicts }

Half         == <<1, 2>>
Quarter      == <<1, 4>>
ThreeQuarter == <<3, 4>>

RampSpecs ==
    { <<TokX, TokB, TokW, << <<100, Half>> >> >>,
      <<TokX, TokB, TokW, << <<100, Quarter>>, <<500, Half>> >> >>,
      <<TokX, TokB, TokQ, << <<300, ThreeQuarter>> >> >> }

\* Number of RampSpecs in DERIVED_SCALES.
MaxRamps == 2

RECURSIVE SeqsUpTo(_, _)
SeqsUpTo(S, n) ==
    IF n = 0 THEN {<<>>}
    ELSE LET shorter == SeqsUpTo(S, n - 1)
         IN  shorter \cup {Append(q, x) : q \in shorter, x \in S}

ScaleTables == SeqsUpTo(RampSpecs, MaxRamps)

NoFile == <<"absent">>

-----------------------------------------------------------------------------
(* main, one step per place where the run can end *)

Init ==
    /\ THEMES \in ThemeTables
    /\ DERIVED_SCALES \in ScaleTables
    /\ pc = "build"
    /\ idx = 1
    /\ themes_palettes = <<>>
    /\ total_vars = 0
    /\ css_file = NoFile
    /\ ts_file = NoFile
    /\ raised = ""
    /\ stdout = <<>>
    /\ arg = <<>>
    /\ ret = <<>>

Fail(e) ==
    /\ pc' = "failed"
    /\ raised' = e

\* Lines 188-189, or the exception of build_palette leaving main.
StorePalette(theme_name, palette) ==
    IF palette.err # ""
    THEN /\ Fail(palette.err)
         /\ UNCHANGED <<idx, themes_palettes, total_vars>>
    ELSE /\ themes_palettes' = DictSet(themes_palettes, theme_name, palette.val)
         /\ total_vars' = total_vars + Len(palette.val)
         /\ idx' = idx + 1
         /\ pc' = IF idx = Len(THEMES) THEN "mkdir_css" ELSE "build"
         /\ UNCHANGED raised

\* Lines 186-189: one iteration of the loop over THEMES.
BuildTheme ==
    /\ pc = "build"
    /\ StorePalette(THEMES[idx][1], build_palette(THEMES[idx][2]))
    /\ UNCHANGED <<THEMES, DERIVED_SCALES, css_file, ts_file, stdout, arg, ret>>

\* Line 191: OUT_CSS.parent.mkdir(parents=True, exist_ok=True)
MkdirCss ==
    /\ pc = "mkdir_css"
    /\ \E ok \in BOOLEAN :
          IF ok THEN pc' = "mkdir_ts" /\ UNCHANGED raised ELSE Fail("OSError")
    /\ UNCHANGED <<THEMES, DERIVED_SCALES, idx, themes_palettes, total_vars,
                   css_file, ts_file, stdout, arg, ret>>

\* Line 192: OUT_TS.parent.mkdir(parents=True, exist_ok=True)
MkdirTs ==
    /\ pc = "mkdir_ts"
    /\ \E ok \in BOOLEAN :
          IF ok THEN pc' = "write_css" /\ UNCHANGED raised ELSE Fail("OSError")
    /\ UNCHANGED <<THEMES, DERIVED_SCALES, idx, themes_palettes, total_vars,
                   css_file, ts_file, stdout, arg, ret>>

\* What write_text leaves of a file: the text, or, when the file cannot be
\* opened for writing, the file as it was and an OSError.
WriteOutcomes(old, text) ==
    { [err |-> "", file |-> text],
      [err |-> "OSError", file |-> old] }

\* Line 194: OUT_CSS.write_text(emit_css(themes_palettes))
WriteCss ==
    /\ pc = "write_css"
    /\ \E w \in WriteOutcomes(css_file, emit_css(themes_palettes)) :
          /\ css_file' = w.file
          /\ IF w.err = "" THEN pc' = "write_ts" /\ UNCHANGED raised
             ELSE Fail(w.err)
    /\ UNCHANGED <<THEMES, DERIVED_SCALES, idx, themes_palettes, total_vars,
                   ts_file, stdout, arg, ret>>

\* The theme whose palette goes to colors.ts (line 196).
DefaultTheme == "dark-red"

\* Lines 196-197: OUT_TS.write_text(emit_ts(themes_palettes["dark-red"])),
\* then the summary line.
WriteTs ==
    /\ pc = "write_ts"
    /\ LET palette == Get(themes_palettes, DefaultTheme)
       IN  IF palette.err # ""
           THEN /\ Fail(palette.err)
                /\ UNCHANGED <<ts_file, stdout>>
           ELSE \E w \in WriteOutcomes(ts_file, emit_ts(palette.val)) :
                   /\ ts_file' = w.file
                   /\ IF w.err = ""
                      THEN /\ pc' = "done"
                           /\ stdout' = <<Len(THEMES), total_vars>>
                           /\ UNCHANGED raised
                      ELSE /\ Fail(w.err)
                           /\ UNCHANGED stdout
    /\ UNCHANGED <<THEMES, DERIVED_SCALES, idx, themes_palettes, total_vars,
                   css_file, arg, ret>>

Next == BuildTheme \/ MkdirCss \/ MkdirTs \/ WriteCss \/ WriteTs

Spec == Init /\ [][Next]_vars

-----------------------------------------------------------------------------
(* Calls of the helpers on their own: the argument is drawn, the function  *)
(* is applied, and a decoded colour may be encoded again.                  *)

\* A decimal digit, a lowercase and an uppercase hexadecimal letter.
HexAlphabet == {"0", "a", "F"}

\* Longest digit string given to hex_to_rgb.
MaxHexLen == 7

HexBodies == UNION {[1..n -> HexAlphabet] : n \in 0..MaxHexLen}

\* Inputs with a character that is no hexadecimal digit, a sign, a blank,
\* or more than one '#'; a seed of the shipped configuration.
OtherHexInputs ==
    { BadHex, Px8, RgbForm,
      <<"g", "0", "0", "0", "0", "0">>,
      <<"#", "0", "0", "0", "0", "0", "g">>,
      <<"#", "0", "0", "0", "0", "0", "0", "g">>,
      <<"#", "#", "a", "0", "F", "F", "0", "0">>,
      <<"-", "a", "-", "F", "-", "0">>,
      <<" ", "a", "F", " ", "0", "0">>,
      Fg500 }

HexInputs ==
    {Tuple(b) : b \in HexBodies} \cup {<<"#">> \o b : b \in HexBodies}
        \cup OtherHexInputs

\* Channel values of the second colour given to mix.
MixChannels == {0, 1, 2, 3, 4, 5, 127, 128, 253, 254, 255}

MixFractions == {<<0, 1>>, <<1, 1>>, Half, Quarter, ThreeQuarter, <<1, 8>>}

MixInputs ==
    { << <<"#">> \o Fmt02X(a) \o <<"0", "0", "f", "f">>,
         <<"#">> \o Fmt02X(b) \o <<"F", "F", "0", "0">>,
         p >> : a \in 0..255, b \in MixChannels, p \in MixFractions }

Calls ==
    {[fn |-> "hex_to_rgb", args |-> <<h>>] : h \in HexInputs}
        \cup {[fn |-> "mix", args |-> m] : m \in MixInputs}
        \cup {[fn |-> "build_palette", args |-> <<d>>] : d \in SeedDicts}

InitFn ==
    /\ arg \in Calls
    /\ DERIVED_SCALES \in
          IF arg.fn = "build_palette" THEN ScaleTables ELSE {<<>>}
    /\ pc = "call"
    /\ ret = <<>>
    /\ THEMES = <<>>
    /\ idx = 1
    /\ themes_palettes = <<>>
    /\ total_vars = 0
    /\ css_file = NoFile
    /\ ts_file = NoFile
    /\ raised = ""
    /\ stdout = <<>>

CallHexToRgb ==
    /\ pc = "call"
    /\ arg.fn = "hex_to_rgb"
    /\ ret' = hex_to_rgb(arg.args[1])
    /\ pc' = "returned"
    /\ UNCHANGED <<THEMES, DERIVED_SCALES, idx, themes_palettes, total_vars,
                   css_file, ts_file, raised, stdout, arg>>

\* rgb_to_hex on the triple that hex_to_rgb returned.
CallRgbToHex ==
    /\ pc = "returned"
    /\ arg.fn = "hex_to_rgb"
    /\ ret.err = ""
    /\ ret' = Return(rgb_to_hex(ret.val))
    /\ pc' = "encoded"
    /\ UNCHANGED <<THEMES, DERIVED_SCALES, idx, themes_palettes, total_vars,
                   css_file, ts_file, raised, stdout, arg>>

\* mix as build_palette calls it (lines 129-130): the stop's delta goes
\* through weight = 1 - delta and 1 - weight.
CallMix ==
    /\ pc = "call"
    /\ arg.fn = "mix"
    /\ ret' = mix(arg.args[1], arg.args[2], OneMinus(OneMinus(arg.args[3])))
    /\ pc' = "returned"
    /\ UNCHANGED <<THEMES, DERIVED_SCALES, idx, themes_palettes, total_vars,
                   css_file, ts_file, raised, stdout, arg>>

CallBuildPalette ==
    /\ pc = "call"
    /\ arg.fn = "build_palette"
    /\ ret' = build_palette(arg.args[1])
    /\ pc' = "returned"
    /\ UNCHANGED <<THEMES, DERIVED_SCALES, idx, themes_palettes, total_vars,
                   css_file, ts_file, raised, stdout, arg>>

NextFn == CallHexToRgb \/ CallRgbToHex \/ CallMix \/ CallBuildPalette

SpecFn == InitFn /\ [][NextFn]_vars

-----------------------------------------------------------------------------
(* Properties *)

\* A colour in hex form: '#' and six hexadecimal digits.
IsHexColor(v) ==
    Len(v) = 7 /\ v[1] = "#" /\ \A k \in 2..7 : IsHexDigit(v[k])

\* s without one leading '#', if it has one.
StripOne(s) == IF s # <<>> /\ s[1] = "#" THEN Tail(s) ELSE s

\* Exactly six hexadecimal digits after an optional leading '#'.
WellFormed(s) ==
    Len(StripOne(s)) = 6 /\ \A k \in 1..6 : IsHexDigit(StripOne(s)[k])

\* s.upper()
Upper(s) ==
    [k \in 1..Len(s) |->
        IF \E i \in 11..16 : HexLower[i] = s[k]
        THEN HexUpper[CHOOSE i \in 11..16 : HexLower[i] = s[k]]
        ELSE s[k]]

\* Channel k of a colour written '#' and six hexadecimal digits.
ChannelOf(c, k) == 16 * HexVal(c[2 * k]) + HexVal(c[2 * k + 1])

\* The (token, value) pairs of the entries of colors.ts, in file order.
TsPairs(file) ==
    LET entries == SelectSeq(file, LAMBDA l : l[1] = "entry")
    IN  [k \in 1..Len(entries) |-> <<entries[k][2], entries[k][3]>>]

\* The (token, value) pairs of the declarations inside the block of a theme
\* in colors.css, in file order: the lines between the block's opening line
\* and the next closing line.
BlockPairs(file, theme) ==
    LET first == CHOOSE i \in 1..Len(file) : file[i] = <<"open", theme>>
        last  == CHOOSE j \in (first + 1)..Len(file) :
                     /\ file[j] = <<"close">>
                     /\ \A m \in (first + 1)..(j - 1) : file[m][1] = "decl"
    IN  [k \in 1..(last - first - 1) |-> <<file[first + k][2], file[first + k][3]>>]

Items(d) == {d[j] : j \in 1..Len(d)}

\* The themes main has built so far, with seeds, pre-expansion token set and
\* full palette.
Built ==
    { [seeds |-> Get(THEMES, themes_palettes[i][1]).val,
       pre   |-> RampPalette(Get(THEMES, themes_palettes[i][1]).val).val,
       full  |-> themes_palettes[i][2]] : i \in 1..Len(themes_palettes) }

\* C1: a run of main that fails has written neither colors.css nor
\* colors.ts, and a run that ends normally has written both.
C1_AllOrNothing ==
    /\ pc = "failed" => css_file = NoFile /\ ts_file = NoFile
    /\ pc = "done" => css_file # NoFile /\ ts_file # NoFile

\* C2: once both files are written, the (token, value) pairs of colors.ts
\* are, in the same order and with the same value strings, the pairs of the
\* declarations in the block of the default theme in colors.css.
C2_SamePairsSameOrder ==
    pc = "done" => TsPairs(ts_file) = BlockPairs(css_file, DefaultTheme)

\* A finished run over two themes, the default theme declared second, whose
\* palette holds a literal, derived tokens and opacity variants.
C2_Witness ==
    /\ pc = "done"
    /\ Len(THEMES) = 2
    /\ THEMES[2][1] = DefaultTheme
    /\ HasKey(Get(themes_palettes, DefaultTheme).val, TokR)
    /\ Len(TsPairs(ts_file)) > 60
    /\ DERIVED_SCALES # <<>>

\* C3: opacity expansion adds exactly 20 tokens per hex-coloured token of
\* the pre-expansion token set: for each such token and each step p the
\* token '<token>-<pp>' bound to 'rgb(R G B / A)', under a name that is not
\* a name of the pre-expansion set.
C3_TwentyPerColor ==
    \A t \in Built :
        LET colors == {j \in 1..Len(t.pre) : IsHexColor(t.pre[j][2])}
        IN  /\ Len(t.full) = Len(t.pre) + 20 * Cardinality(colors)
            /\ \A j \in colors : \A k \in 1..Len(op_steps) :
                  /\ VariantName(t.pre[j][1], op_steps[k]) \notin Keys(t.pre)
                  /\ Get(t.full, VariantName(t.pre[j][1], op_steps[k])) =
                        Return(VariantValue(<<ChannelOf(t.pre[j][2], 1),
                                              ChannelOf(t.pre[j][2], 2),
                                              ChannelOf(t.pre[j][2], 3)>>,
                                            op_steps[k]))

\* C4: a token whose value is not a hex colour (a literal such as '8px', a
\* functional form 'rgb(...)') never makes the run fail, gains no opacity
\* variant, and keeps its value in the palette.
C4_NonColorsSkipped ==
    /\ (pc = "failed" /\ raised = "ValueError") =>
          \E j \in 1..Len(THEMES[idx][2]) :
              /\ StartsWith(THEMES[idx][2][j][2], <<"#">>)
              /\ ~IsHexColor(THEMES[idx][2][j][2])
    /\ \A t \in Built : \A j \in 1..Len(t.seeds) :
          ~IsHexColor(t.seeds[j][2]) =>
              /\ Get(t.full, t.seeds[j][1]) = Return(t.seeds[j][2])
              /\ \A k \in 1..Len(op_steps) :
                    ~HasKey(t.full, VariantName(t.seeds[j][1], op_steps[k]))

\* C5: after build_palette every seed token is bound in the palette to the
\* value the author supplied.
C5_SeedsKept ==
    \A t \in Built : \A j \in 1..Len(t.seeds) :
        Get(t.full, t.seeds[j][1]) = Return(t.seeds[j][2])

\* Two RampSpecs of scales have the same prefix and a stop suffix in common.
Ambiguous(scales) ==
    \E a \in 1..Len(scales) : \E b \in (a + 1)..Len(scales) :
        /\ scales[a][1] = scales[b][1]
        /\ \E x \in 1..Len(scales[a][4]) : \E y \in 1..Len(scales[b][4]) :
              scales[a][4][x][1] = scales[b][4][y][1]

\* C6: when two RampSpecs with the same prefix share a suffix, no palette is
\* produced and the run does not get past building.
C6_AmbiguousTokenFails ==
    Ambiguous(DERIVED_SCALES) =>
        themes_palettes = <<>> /\ pc \in {"build", "failed"}

\* C7: hex_to_rgb raises for every input that, after an optional leading
\* '#', is not exactly six hexadecimal digits, and returns a triple only for
\* the others.
C7_RejectsMalformed ==
    (pc = "returned" /\ arg.fn = "hex_to_rgb") =>
        (ret.err = "" <=> WellFormed(arg.args[1]))

\* C8 as stated: for every valid six-digit input h, with or without the
\* leading '#', rgb_to_hex(hex_to_rgb(h)) is h in upper case.
C8_RoundTripAsStated ==
    (pc = "encoded" /\ WellFormed(arg.args[1])) =>
        ret.val = Upper(arg.args[1])

\* C8: for every valid six-digit input h, with or without the leading '#',
\* rgb_to_hex(hex_to_rgb(h)) is '#' followed by the six digits of h in upper
\* case.
C8_RoundTrip ==
    (pc = "encoded" /\ WellFormed(arg.args[1])) =>
        ret.val = <<"#">> \o Upper(StripOne(arg.args[1]))

\* A round trip of a valid input without '#', with a lowercase letter and a
\* channel below 16.
C8_Witness ==
    /\ pc = "encoded"
    /\ WellFormed(arg.args[1])
    /\ arg.args[1][1] = "0"
    /\ arg.args[1] # Upper(arg.args[1])

\* The exact value of channel k before rounding is MixExact(k) / p[2], for
\* the call mix(c1, c2, p) held in arg.
MixExact(k) ==
    ChannelOf(arg.args[1], k) * arg.args[3][2]
        + (ChannelOf(arg.args[2], k) - ChannelOf(arg.args[1], k)) * arg.args[3][1]

\* r is n / d rounded to the nearest integer, an exact half going up.
IsHalfUp(r, n, d) == 2 * d * r <= 2 * n + d /\ 2 * n + d < 2 * d * (r + 1)

\* r is n / d rounded to the nearest integer, an exact half going to the
\* even neighbour.
IsHalfEven(r, n, d) ==
    LET twice == IF r * d >= n THEN 2 * (r * d - n) ELSE 2 * (n - r * d)
    IN  twice <= d /\ (twice = d => r % 2 = 0)

\* The end-to-end example: base #000000, target #FFFFFF and a stop
\* (500, 0.5) on prefix --x give --x-500 = #808080 and
\* --x-500-50 = rgb(128 128 128 / 0.50).
ExampleHolds ==
    ( /\ pc = "returned"
      /\ arg.fn = "build_palette"
      /\ ret.err = ""
      /\ Get(arg.args[1], TokB) = Return(Black)
      /\ Get(arg.args[1], TokW) = Return(White)
      /\ \E a \in 1..Len(DERIVED_SCALES) :
            /\ DERIVED_SCALES[a][1] = TokX
            /\ DERIVED_SCALES[a][2] = TokB
            /\ DERIVED_SCALES[a][3] = TokW
            /\ \E x \in 1..Len(DERIVED_SCALES[a][4]) :
                  DERIVED_SCALES[a][4][x] = <<500, Half>> )
    => /\ Get(ret.val, TokX500) =
             Return(<<"#", "8", "0", "8", "0", "8", "0">>)
       /\ Get(ret.val, TokX500 \o <<"-", "5", "0">>) =
             Return(<<"r", "g", "b", "(", "1", "2", "8", " ", "1", "2", "8",
                      " ", "1", "2", "8", " ", "/", " ", "0", ".", "5", "0",
                      ")">>)

\* C9: colors.css holds exactly one block per theme, in the order the
\* themes are declared, each with one declaration per token of that theme's
\* palette and nothing else; colors.ts holds exactly the tokens of the
\* default theme's palette with their values, and so nothing of another
\* theme.
C9_OneBlockPerTheme ==
    /\ css_file # NoFile =>
          LET opens == SelectSeq(css_file, LAMBDA l : l[1] = "open")
          IN  /\ Tuple([i \in 1..Len(opens) |-> opens[i][2]]) =
                    Tuple([i \in 1..Len(THEMES) |-> THEMES[i][1]])
              /\ Len(SelectSeq(css_file, LAMBDA l : l[1] = "decl")) = total_vars
              /\ \A i \in 1..Len(THEMES) :
                    LET pairs   == BlockPairs(css_file, THEMES[i][1])
                        palette == Get(themes_palettes, THEMES[i][1]).val
                    IN  Len(pairs) = Len(palette) /\ Items(pairs) = Items(palette)
    /\ ts_file # NoFile =>
          LET pairs   == TsPairs(ts_file)
              palette == Get(themes_palettes, DefaultTheme).val
          IN  Len(pairs) = Len(palette) /\ Items(pairs) = Items(palette)

\* A finished run over two themes, the default theme declared second, the
\* other theme holding a token and values the default theme does not have.
C9_Witness ==
    /\ pc = "done"
    /\ Len(THEMES) = 2
    /\ THEMES[1][1] # DefaultTheme
    /\ Keys(themes_palettes[1][2]) \ Keys(themes_palettes[2][2]) # {}
    /\ Get(themes_palettes[1][2], TokB) # Get(themes_palettes[2][2], TokB)

\* C10 as stated: each channel mix returns is c1 + (c2 - c1) * fraction
\* rounded to the nearest integer with an exact half rounded away from zero
\* (up, the value being non-negative), and the end-to-end example holds.
C10_HalfAwayFromZero ==
    /\ (pc = "returned" /\ arg.fn = "mix" /\ ret.err = "") =>
          \A k \in 1..3 :
              IsHalfUp(ChannelOf(ret.val, k), MixExact(k), arg.args[3][2])
    /\ ExampleHolds

\* C10: each channel mix returns is c1 + (c2 - c1) * fraction rounded to the
\* nearest integer with an exact half rounded to the even neighbour, and the
\* end-to-end example holds (127.5 goes to 128, which is even).
C10_HalfToEven ==
    /\ (pc = "returned" /\ arg.fn = "mix" /\ ret.err = "") =>
          \A k \in 1..3 :
              IsHalfEven(ChannelOf(ret.val, k), MixExact(k), arg.args[3][2])
    /\ ExampleHolds

\* mix has returned a colour one channel of which was an exact half above an
\* even integer.
C10_Witness ==
    /\ pc = "returned"
    /\ arg.fn = "mix"
    /\ ret.err = ""
    /\ 2 * (MixExact(1) % arg.args[3][2]) = arg.args[3][2]
    /\ (MixExact(1) \div arg.args[3][2]) % 2 = 0
    /\ ChannelOf(ret.val, 1) = MixExact(1) \div arg.args[3][2]

====
